---------------------------- MODULE Spec2Model ----------------------------
(* Django learning projects: the Book REST API of advanced-api-project     *)
(* (api/models.py, api/serializers.py, api/views.py, api/urls.py).         *)
(* One client issues one request at a time; a request is served by one     *)
(* generic view, and the response is returned before the next request.     *)
EXTENDS Integers, Sequences, FiniteSets, TLC

(***************************************************************************)
(* Bounds of the model                                                     *)
(***************************************************************************)
MaxBooks == 2        \* primary keys handed out by the auto-increment id
MaxTitleLen == 2     \* length of the short titles a client submits
MaxTermLen == 2      \* length of the values of the filter parameters
MaxSearchLen == 3    \* length of the value of the search parameter
MaxAuthors == 3       \* Author rows ever created
MaxWorkers == 2       \* requests answered concurrently
MaxUsers == 3         \* User rows ever created
MaxTicks == 1        \* new years that pass while the server runs
MaxTokens == 2       \* keys a Token can have
StartYear == 2026    \* date.today().year when the server starts

(***************************************************************************)
(* Program constants                                                       *)
(***************************************************************************)
TitleMaxLength == 255            \* models.CharField(max_length=255)
ApiTitleMaxLength == 200         \* api_project: models.CharField(max_length=200)
ApiAuthorMaxLength == 100        \* api_project: models.CharField(max_length=100)
HTTP_200_OK == 200
HTTP_201_CREATED == 201
HTTP_204_NO_CONTENT == 204
HTTP_302_FOUND == 302
HTTP_400_BAD_REQUEST == 400
HTTP_401_UNAUTHORIZED == 401
HTTP_403_FORBIDDEN == 403
HTTP_404_NOT_FOUND == 404
HTTP_405_METHOD_NOT_ALLOWED == 405
HTTP_500_INTERNAL_SERVER_ERROR == 500

(***************************************************************************)
(* Text: a string is a sequence of characters                              *)
(***************************************************************************)
Alphabet == {"a", "A", " "}

\* The characters of the titles a client submits when it writes a book.
TitleChars == {"a", " "}

SeqsUpTo(S, n) == UNION {[1..k -> S] : k \in 0..n}

Repeat(c, n) == [i \in 1..n |-> c]

\* A title one character longer than the column allows.
LongTitle == Repeat("a", TitleMaxLength + 1)

Titles == SeqsUpTo(TitleChars, MaxTitleLen) \cup {LongTitle}

Years == StartYear..(StartYear + 1)

IsSpace(c) == c = " "

\* str.strip(): what the serializer's CharField (trim_whitespace) and the
\* filter form's CharField (strip) do to a submitted string.
Strip(s) ==
    IF \A i \in 1..Len(s) : IsSpace(s[i]) THEN <<>>
    ELSE LET first == CHOOSE i \in 1..Len(s) :
                         ~IsSpace(s[i]) /\ \A j \in 1..(i - 1) : IsSpace(s[j])
             last == CHOOSE i \in 1..Len(s) :
                         ~IsSpace(s[i]) /\ \A j \in (i + 1)..Len(s) : IsSpace(s[j])
         IN  SubSeq(s, first, last)

Lower(c) == IF c = "A" THEN "a" ELSE c

LowerStr(s) == [i \in 1..Len(s) |-> Lower(s[i])]

\* The icontains lookup: case-insensitive containment.
IContains(hay, needle) ==
    LET h == LowerStr(hay)
        n == LowerStr(needle)
    IN  \E i \in 0..(Len(h) - Len(n)) : SubSeq(h, i + 1, i + Len(n)) = n

(***************************************************************************)
(* State                                                                   *)
(***************************************************************************)
VARIABLES
    books,         \* Book table: id -> [title, publication_year, author]
    authors,       \* Author table: id -> name
    nextId,        \* next value of the Book auto-increment primary key
    nextAuthorId,  \* next value of the Author auto-increment primary key
    currentYear,   \* date.today().year
    request,       \* the request being answered (NoRequest when idle)
    response,      \* its response
    project,       \* the Django project that runs
    inflight,      \* concurrent requests: worker -> [pc, request, instance, response]
    webRequest,    \* the request a Django view of LibraryProject answers
    webResponse,   \* its response
    users,         \* User table: id -> [username]
    profiles,      \* UserProfile table: id -> [user, role]
    nextUserId,    \* next value of the User auto-increment primary key
    nextProfileId, \* next value of the UserProfile auto-increment primary key
    managerCall,   \* the last call of CustomUserManager and how it ended
    tokens         \* authtoken Token table of api_project: key -> user id

apiVars == <<books, authors, nextId, nextAuthorId, currentYear, request, response>>

webVars == <<webRequest, webResponse>>

userVars == <<users, profiles, nextUserId, nextProfileId, managerCall, tokens>>

vars == <<apiVars, project, inflight, webVars, userVars>>

Fields == {"title", "publication_year", "author"}

AuthorIds == 1..3      \* 3 is never an Author row

\* The query string of a book-list request: the parameters in `params`
\* carry the values given, the others are absent.
FilterParams == {"title", "author", "publication_year"}

Terms == SeqsUpTo(Alphabet, MaxTermLen)

NoQuery ==
    [params |-> {}, title |-> <<>>, author |-> <<>>, publication_year |-> 0,
     search |-> <<>>, ordering |-> ""]

\* ?title=..&author=..&publication_year=..
FilterQueries ==
    {[params |-> s,
      title |-> IF "title" \in s THEN t ELSE <<>>,
      author |-> IF "author" \in s THEN a ELSE <<>>,
      publication_year |-> IF "publication_year" \in s THEN y ELSE 0,
      search |-> <<>>, ordering |-> ""] :
        s \in SUBSET FilterParams, t \in Terms, a \in Terms, y \in Years}

SearchTerms == SeqsUpTo(Alphabet, MaxSearchLen)

\* ?search=..
SearchQueries ==
    {[NoQuery EXCEPT !.params = {"search"}, !.search = t] : t \in SearchTerms}

\* The values sent as ?ordering=; "author" is not one of ordering_fields.
OrderingValues ==
    {"title", "-title", "publication_year", "-publication_year", "author"}

\* ?ordering=.., alone or with ?publication_year=.. or ?search=..
OrderingQueries ==
    {[NoQuery EXCEPT !.params = {"ordering"}, !.ordering = o] :
        o \in OrderingValues}
    \cup {[NoQuery EXCEPT !.params = {"ordering", "publication_year"},
                          !.ordering = o, !.publication_year = y] :
            o \in OrderingValues, y \in Years}
    \cup {[NoQuery EXCEPT !.params = {"ordering", "search"},
                          !.ordering = o, !.search = t] :
            o \in OrderingValues, t \in Terms}

Queries == FilterQueries \cup SearchQueries \cup OrderingQueries

NoRequest ==
    [view |-> "none", method |-> "NONE", authenticated |-> FALSE, pk |-> 0,
     supplied |-> {}, title |-> <<>>, publication_year |-> 0, author |-> 0,
     query |-> NoQuery]

NoResponse == [status |-> 0, errors |-> {}, data |-> <<>>]

\* A JSON body: the fields in `supplied` carry the values given, the others
\* are absent (kept at a fixed default).
Payloads ==
    {[supplied |-> s,
      title |-> IF "title" \in s THEN t ELSE <<>>,
      publication_year |-> IF "publication_year" \in s THEN y ELSE 0,
      author |-> IF "author" \in s THEN a ELSE 0] :
        s \in SUBSET Fields, t \in Titles, y \in Years, a \in AuthorIds}

Request(view, method, auth, pk, p, q) ==
    [view |-> view, method |-> method, authenticated |-> auth, pk |-> pk,
     supplied |-> p.supplied, title |-> p.title,
     publication_year |-> p.publication_year, author |-> p.author,
     query |-> q]

Response(status, errors, data) ==
    [status |-> status, errors |-> errors, data |-> data]

(***************************************************************************)
(* api/serializers.py                                                      *)
(***************************************************************************)
\* BookSerializer.to_representation: fields = ['id', 'title',
\* 'publication_year', 'author'].
Serialize(store, id) ==
    [id |-> id, title |-> store[id].title,
     publication_year |-> store[id].publication_year,
     author |-> store[id].author]

validate_publication_year_Off(value, current_year) == TRUE

validate_publication_year_OffByOne(value, current_year) ==
    ~(value > current_year + 1)

\* validate_publication_year passes (returns the value) unless the year is
\* in the future.
validate_publication_year(value, current_year) == ~(value > current_year)

TitleToInternal_NoTrim(t) == t

\* The title field a ModelSerializer builds for
\* models.CharField(max_length=255): trimmed, not blank, at most 255 long.
TitleToInternal(t) == Strip(t)

TitleValid(t) ==
    /\ TitleToInternal(t) # <<>>
    /\ Len(TitleToInternal(t)) <= TitleMaxLength

\* The author field: a primary key of Author.objects.all().
AuthorValid(a, authorTable) == a \in DOMAIN authorTable

\* serializer.is_valid(): the keys of serializer.errors.  A field that is
\* absent is an error unless the update is partial.
SerializerErrors(req, partial, authorTable, current_year) ==
    {f \in Fields :
        IF f \notin req.supplied THEN ~partial
        ELSE CASE f = "title" -> ~TitleValid(req.title)
               [] f = "publication_year" ->
                      ~validate_publication_year(req.publication_year, current_year)
               [] f = "author" -> ~AuthorValid(req.author, authorTable)}

ValidatedBook_KeepsAuthor(req, instance) ==
    [title |-> IF "title" \in req.supplied
               THEN Strip(req.title) ELSE instance.title,
     publication_year |-> IF "publication_year" \in req.supplied
                          THEN req.publication_year ELSE instance.publication_year,
     author |-> instance.author]

ValidatedBook_ResetsAbsent(req, instance) ==
    [title |-> Strip(req.title),
     publication_year |-> req.publication_year,
     author |-> req.author]

\* serializer.validated_data merged over the instance (the instance of a
\* create is empty; every field is then supplied).
ValidatedBook(req, instance) ==
    [title |-> IF "title" \in req.supplied
               THEN TitleToInternal(req.title) ELSE instance.title,
     publication_year |-> IF "publication_year" \in req.supplied
                          THEN req.publication_year ELSE instance.publication_year,
     author |-> IF "author" \in req.supplied THEN req.author ELSE instance.author]

EmptyInstance == [title |-> <<>>, publication_year |-> 0, author |-> 0]

(***************************************************************************)
(* api/views.py: permissions                                               *)
(***************************************************************************)
SAFE_METHODS == {"GET", "HEAD", "OPTIONS"}

IsAuthenticated_AllowAny(req) == TRUE

IsAuthenticated(req) == req.authenticated

IsAuthenticatedOrReadOnly_AuthOnly(req) == req.authenticated

IsAuthenticatedOrReadOnly(req) ==
    req.method \in SAFE_METHODS \/ req.authenticated

\* The response to a request that fails the permission check.
PermissionDenied == Response(HTTP_403_FORBIDDEN, {}, <<>>)

NotFound == Response(HTTP_404_NOT_FOUND, {}, <<>>)

(***************************************************************************)
(* Init                                                                    *)
(***************************************************************************)
\* `role` of a user that has no UserProfile
NoProfile == "no userprofile"

\* request.user of a request without a session
AnonymousUser ==
    [is_authenticated |-> FALSE, is_superuser |-> FALSE, user_permissions |-> {},
     role |-> NoProfile]

\* No request is being answered by a Django view.
NoWebRequest ==
    [view |-> "none", method |-> "NONE", user |-> AnonymousUser, pk |-> 0,
     title |-> <<>>, author |-> 0]

NoWebResponse == [status |-> 0]

\* No call of the user manager was made yet.
NoCall ==
    [op |-> "none", username |-> "", is_staff |-> "unset",
     is_superuser |-> "unset", raised |-> "", returned |-> 0]

Init ==
    /\ books = <<>>
    /\ authors = (1 :> <<"A", "a">>) @@ (2 :> <<"b">>)
    /\ nextId = 1
    /\ nextAuthorId = 3
    /\ currentYear = StartYear
    /\ request = NoRequest
    /\ response = NoResponse
    /\ project = "advanced-api-project"
    /\ inflight = <<>>
    /\ webRequest = NoWebRequest
    /\ webResponse = NoWebResponse
    /\ users = <<>>
    /\ profiles = <<>>
    /\ nextUserId = 1
    /\ nextProfileId = 1
    /\ managerCall = NoCall
    /\ tokens = <<>>

(***************************************************************************)
(* api/views.py: the generic views                                         *)
(***************************************************************************)
Outcome(resp, store, nid) == [response |-> resp, books |-> store, nextId |-> nid]

Remove_All(store, pk) == <<>>

Remove(store, pk) == [i \in (DOMAIN store) \ {pk} |-> store[i]]

\* CreateAPIView.post -> CreateModelMixin.create
create(req, store, authorTable, nid, current_year) ==
    IF ~IsAuthenticated(req) THEN Outcome(PermissionDenied, store, nid)
    ELSE LET errs == SerializerErrors(req, FALSE, authorTable, current_year)
         IN  IF errs # {}
             THEN Outcome(Response(HTTP_400_BAD_REQUEST, errs, <<>>), store, nid)
             ELSE LET saved == store @@ (nid :> ValidatedBook(req, EmptyInstance))
                  IN  Outcome(Response(HTTP_201_CREATED, {},
                                       <<Serialize(saved, nid)>>),
                              saved, nid + 1)

\* UpdateAPIView.put / .patch -> UpdateModelMixin.update(partial)
update(req, store, authorTable, nid, current_year) ==
    LET partial == req.method = "PATCH"
    IN  IF ~IsAuthenticated(req) THEN Outcome(PermissionDenied, store, nid)
        ELSE IF req.pk \notin DOMAIN store THEN Outcome(NotFound, store, nid)
        ELSE LET errs == SerializerErrors(req, partial, authorTable, current_year)
             IN  IF errs # {}
                 THEN Outcome(Response(HTTP_400_BAD_REQUEST, errs, <<>>), store, nid)
                 ELSE LET saved == [store EXCEPT
                                      ![req.pk] = ValidatedBook(req, store[req.pk])]
                      IN  Outcome(Response(HTTP_200_OK, {},
                                           <<Serialize(saved, req.pk)>>),
                                  saved, nid)

destroy_IgnoresMissing(req, store, nid) ==
    IF ~IsAuthenticated(req) THEN Outcome(PermissionDenied, store, nid)
    ELSE Outcome(Response(HTTP_204_NO_CONTENT, {}, <<>>), Remove(store, req.pk), nid)

\* DestroyAPIView.delete -> DestroyModelMixin.destroy
destroy(req, store, nid) ==
    IF ~IsAuthenticated(req) THEN Outcome(PermissionDenied, store, nid)
    ELSE IF req.pk \notin DOMAIN store THEN Outcome(NotFound, store, nid)
    ELSE Outcome(Response(HTTP_204_NO_CONTENT, {}, <<>>), Remove(store, req.pk), nid)

\* RetrieveAPIView.get -> RetrieveModelMixin.retrieve
retrieve(req, store, nid) ==
    IF ~IsAuthenticatedOrReadOnly(req) THEN Outcome(PermissionDenied, store, nid)
    ELSE IF req.pk \notin DOMAIN store THEN Outcome(NotFound, store, nid)
    ELSE Outcome(Response(HTTP_200_OK, {}, <<Serialize(store, req.pk)>>), store, nid)

\* BookFilter: a CharFilter cleans its value with str.strip() and does not
\* filter on an empty value; the NumberFilter compares for equality.
FilterTitle(q, book) ==
    "title" \in q.params /\ Strip(q.title) # <<>>
        => IContains(book.title, Strip(q.title))

FilterAuthor(q, book, authorTable) ==
    "author" \in q.params /\ Strip(q.author) # <<>>
        => IContains(authorTable[book.author], Strip(q.author))

FilterPublicationYear(q, book) ==
    "publication_year" \in q.params => book.publication_year = q.publication_year

BookFilter_Any(q, store, authorTable) ==
    {id \in DOMAIN store :
        \/ q.params = {}
        \/ "title" \in q.params /\ FilterTitle(q, store[id])
        \/ "author" \in q.params /\ FilterAuthor(q, store[id], authorTable)
        \/ "publication_year" \in q.params /\ FilterPublicationYear(q, store[id])}

\* DjangoFilterBackend.filter_queryset over Book.objects.all()
BookFilter(q, store, authorTable) ==
    {id \in DOMAIN store :
        /\ FilterTitle(q, store[id])
        /\ FilterAuthor(q, store[id], authorTable)
        /\ FilterPublicationYear(q, store[id])}

CharCode(c) == CASE c = " " -> 32 [] c = "A" -> 65 [] c = "a" -> 97 [] c = "b" -> 98

\* s <= t in the order of the title column (character by character).
StrLeq(s, t) ==
    \E k \in 0..Len(s) :
        /\ k <= Len(t)
        /\ \A i \in 1..k : s[i] = t[i]
        /\ \/ k = Len(s)
           \/ k < Len(t) /\ CharCode(s[k + 1]) < CharCode(t[k + 1])

\* SearchFilter.get_search_terms: the value of ?search= split at whitespace.
SearchWords(s) ==
    {SubSeq(s, r[1], r[2]) :
        r \in {r \in (1..Len(s)) \X (1..Len(s)) :
                 /\ r[1] <= r[2]
                 /\ \A k \in r[1]..r[2] : ~IsSpace(s[k])
                 /\ r[1] = 1 \/ IsSpace(s[r[1] - 1])
                 /\ r[2] = Len(s) \/ IsSpace(s[r[2] + 1])}}

\* search_fields = ['title'] only
SearchFilter_TitleOnly(q, ids, store, authorTable) ==
    {id \in ids :
        \A w \in SearchWords(q.search) : IContains(store[id].title, w)}

\* SearchFilter.filter_queryset with search_fields = ['title',
\* 'author__name']: every word is contained, ignoring case, in one of the
\* fields.
SearchFilter(q, ids, store, authorTable) ==
    {id \in ids :
        \A w \in SearchWords(q.search) :
            \/ IContains(store[id].title, w)
            \/ IContains(authorTable[store[id].author], w)}

Perms(S) ==
    {sq \in [1..Cardinality(S) -> S] :
        \A i, j \in 1..Cardinality(S) : i # j => sq[i] # sq[j]}

\* ordering_fields = ['title', 'publication_year']
ordering_fields == {"title", "publication_year"}

Descending_Never(o) == FALSE

\* A leading '-' asks for the descending order.
Descending(o) == o \in {"-title", "-publication_year"}

\* The field named by a value of ?ordering=, its '-' removed.
OrderingField(o) ==
    CASE o \in {"title", "-title"} -> "title"
      [] o \in {"publication_year", "-publication_year"} -> "publication_year"
      [] OTHER -> o

\* OrderingFilter.get_ordering: the value of ?ordering= when it names one
\* of ordering_fields, the view's ordering = ['title'] otherwise.
get_ordering(q) ==
    IF "ordering" \in q.params /\ OrderingField(q.ordering) \in ordering_fields
    THEN q.ordering ELSE "title"

\* Row a is not after row b in the order asked for.
RowLeq(o, a, b) ==
    LET leq(x, y) == IF OrderingField(o) = "title"
                     THEN StrLeq(x.title, y.title)
                     ELSE x.publication_year <= y.publication_year
    IN  IF Descending(o) THEN leq(b, a) ELSE leq(a, b)

\* queryset.order_by(*ordering): rows that compare equal come in an order
\* the database chooses.
OrderBy(o, ids, store) ==
    {sq \in Perms(ids) :
        \A i, j \in 1..Len(sq) : i < j => RowLeq(o, store[sq[i]], store[sq[j]])}

\* GenericAPIView.filter_queryset: filter_backends = [DjangoFilterBackend,
\* SearchFilter, OrderingFilter] applied in turn.
filter_queryset(q, store, authorTable) ==
    OrderBy(get_ordering(q),
            SearchFilter(q, BookFilter(q, store, authorTable), store, authorTable),
            store)

\* ListAPIView.get -> ListModelMixin.list: the possible responses.
list(req, store, authorTable, nid) ==
    IF ~IsAuthenticatedOrReadOnly(req) THEN {Outcome(PermissionDenied, store, nid)}
    ELSE {Outcome(Response(HTTP_200_OK, {},
                           [i \in 1..Len(sq) |-> Serialize(store, sq[i])]),
                  store, nid) :
            sq \in filter_queryset(req.query, store, authorTable)}

Idle == request = NoRequest

\* The view answers the request: the whole handler, database write included.
Serve(req, out) ==
    /\ out.nextId <= MaxBooks + 1
    /\ request' = req
    /\ response' = out.response
    /\ books' = out.books
    /\ nextId' = out.nextId
    /\ UNCHANGED <<authors, nextAuthorId, currentYear>>
    /\ UNCHANGED <<project, inflight, webVars, userVars>>

BookPks == 1..(MaxBooks + 1)     \* MaxBooks + 1 is never a Book row

NoPayload == [supplied |-> {}, title |-> <<>>, publication_year |-> 0, author |-> 0]

BookCreateView ==
    /\ Idle
    /\ \E auth \in BOOLEAN, p \in Payloads :
           LET req == Request("book-create", "POST", auth, 0, p, NoQuery)
           IN  Serve(req, create(req, books, authors, nextId, currentYear))

BookUpdateView ==
    /\ Idle
    /\ \E auth \in BOOLEAN, m \in {"PUT", "PATCH"}, pk \in BookPks, p \in Payloads :
           LET req == Request("book-update", m, auth, pk, p, NoQuery)
           IN  Serve(req, update(req, books, authors, nextId, currentYear))

BookDeleteView ==
    /\ Idle
    /\ \E auth \in BOOLEAN, pk \in BookPks :
           LET req == Request("book-delete", "DELETE", auth, pk, NoPayload, NoQuery)
           IN  Serve(req, destroy(req, books, nextId))

BookDetailView ==
    /\ Idle
    /\ \E auth \in BOOLEAN, pk \in BookPks :
           LET req == Request("book-detail", "GET", auth, pk, NoPayload, NoQuery)
           IN  Serve(req, retrieve(req, books, nextId))

BookListView ==
    /\ Idle
    /\ \E auth \in BOOLEAN, q \in Queries :
           LET req == Request("book-list", "GET", auth, 0, NoPayload, q)
           IN  \E out \in list(req, books, authors, nextId) : Serve(req, out)

\* api/urls.py: the route of each view below the prefix of the api app.
urlpatterns ==
    [x \in {"book-list", "book-detail", "book-create", "book-update", "book-delete"} |->
        CASE x = "book-list" -> "books/"
          [] x = "book-detail" -> "books/<int:pk>/"
          [] x = "book-create" -> "books/create/"
          [] x = "book-update" -> "books/<int:pk>/update/"
          [] x = "book-delete" -> "books/<int:pk>/delete/"]

Methods == {"GET", "POST", "PUT", "PATCH", "DELETE"}

\* The methods the generic class of each view has a handler for.
http_method_names(view) ==
    CASE view = "book-list" -> {"GET"}               \* ListAPIView
      [] view = "book-detail" -> {"GET"}             \* RetrieveAPIView
      [] view = "book-create" -> {"POST"}            \* CreateAPIView
      [] view = "book-update" -> {"PUT", "PATCH"}    \* UpdateAPIView
      [] view = "book-delete" -> {"DELETE"}          \* DestroyAPIView

\* permission_classes of each view
HasPermission(req) ==
    IF req.view \in {"book-list", "book-detail"}
    THEN IsAuthenticatedOrReadOnly(req) ELSE IsAuthenticated(req)

\* APIView.dispatch for a method the view has no handler for: the
\* permissions are checked first, then http_method_not_allowed answers.
http_method_not_allowed(req, store, nid) ==
    IF ~HasPermission(req) THEN Outcome(PermissionDenied, store, nid)
    ELSE Outcome(Response(HTTP_405_METHOD_NOT_ALLOWED, {}, <<>>), store, nid)

\* Bodies sent with such a request: none, or a complete valid book.
SamplePayloads ==
    {NoPayload,
     [supplied |-> Fields, title |-> <<"a">>, publication_year |-> StartYear,
      author |-> 1]}

MethodNotAllowed ==
    /\ Idle
    /\ \E view \in DOMAIN urlpatterns, auth \in BOOLEAN, pk \in BookPks,
          p \in SamplePayloads :
         \E m \in Methods \ http_method_names(view) :
           LET req == Request(view, m, auth,
                              IF view \in {"book-list", "book-create"} THEN 0 ELSE pk,
                              p, NoQuery)
           IN  Serve(req, http_method_not_allowed(req, books, nextId))

\* The response reaches the client; the server waits for the next request.
Return ==
    /\ ~Idle
    /\ request' = NoRequest
    /\ response' = NoResponse
    /\ UNCHANGED <<books, authors, nextId, nextAuthorId, currentYear>>
    /\ UNCHANGED <<project, inflight, webVars, userVars>>

\* New Year: date.today().year grows by one.
Tick ==
    /\ Idle
    /\ currentYear < StartYear + MaxTicks
    /\ currentYear' = currentYear + 1
    /\ UNCHANGED <<books, authors, nextId, nextAuthorId, request, response>>
    /\ UNCHANGED <<project, inflight, webVars, userVars>>

Next ==
    \/ BookCreateView
    \/ BookUpdateView
    \/ BookDeleteView
    \/ BookDetailView
    \/ BookListView
    \/ MethodNotAllowed
    \/ Return
    \/ Tick

Spec == Init /\ [][Next]_vars

(***************************************************************************)
(* api/models.py: the Author and Book tables written through the ORM       *)
(***************************************************************************)
AuthorNames == {<<"A", "a">>, <<"b">>}

BookRows ==
    {[title |-> t, publication_year |-> y, author |-> a] :
        t \in {<<"a">>, <<"a", "a">>}, y \in Years, a \in 1..MaxAuthors}

\* author.books (related_name='books'): the rows of Book that reference
\* the author.
Author_books(a, store) == {id \in DOMAIN store : store[id].author = a}

Cascade_None(store, a) == store

Cascade_All(store, a) == <<>>

\* on_delete=models.CASCADE: the rows of Book that reference the deleted
\* author are deleted with it.
Cascade(store, a) ==
    [id \in DOMAIN store \ Author_books(a, store) |-> store[id]]

\* Author.objects.create(name=...)
AuthorCreate ==
    /\ nextAuthorId <= MaxAuthors
    /\ \E name \in AuthorNames :
           authors' = authors @@ (nextAuthorId :> name)
    /\ nextAuthorId' = nextAuthorId + 1
    /\ UNCHANGED <<books, nextId, currentYear, request, response>>
    /\ UNCHANGED <<project, inflight, webVars, userVars>>

\* author.delete()
AuthorDelete ==
    /\ \E a \in DOMAIN authors :
           /\ authors' = [x \in DOMAIN authors \ {a} |-> authors[x]]
           /\ books' = Cascade(books, a)
    /\ UNCHANGED <<nextId, nextAuthorId, currentYear, request, response>>
    /\ UNCHANGED <<project, inflight, webVars, userVars>>

\* Book.objects.create(title=..., publication_year=..., author=author): the
\* foreign key constraint refuses a row whose author is not stored.
BookCreate ==
    /\ nextId <= MaxBooks
    /\ \E row \in BookRows :
           /\ row.author \in DOMAIN authors
           /\ books' = books @@ (nextId :> row)
    /\ nextId' = nextId + 1
    /\ UNCHANGED <<authors, nextAuthorId, currentYear, request, response>>
    /\ UNCHANGED <<project, inflight, webVars, userVars>>

\* book.<field> = ...; book.save()
BookSave ==
    /\ \E id \in DOMAIN books, row \in BookRows :
           /\ row.author \in DOMAIN authors
           /\ books' = [books EXCEPT ![id] = row]
    /\ UNCHANGED <<authors, nextId, nextAuthorId, currentYear, request, response>>
    /\ UNCHANGED <<project, inflight, webVars, userVars>>

\* book.delete()
BookDelete ==
    /\ \E id \in DOMAIN books : books' = Remove(books, id)
    /\ UNCHANGED <<authors, nextId, nextAuthorId, currentYear, request, response>>
    /\ UNCHANGED <<project, inflight, webVars, userVars>>

NextModels ==
    \/ AuthorCreate
    \/ AuthorDelete
    \/ BookCreate
    \/ BookSave
    \/ BookDelete

SpecModels == Init /\ [][NextModels]_vars

(***************************************************************************)
(* api/views.py answered by several workers at once: each view reads the   *)
(* row (get_object) and writes it (serializer.save, instance.delete) in    *)
(* separate database statements, with no transaction and no lock.          *)
(***************************************************************************)
Workers == 1..MaxWorkers

SeedBook == [title |-> <<"a">>, publication_year |-> StartYear, author |-> 1]

IdleWorker ==
    [pc |-> "idle", request |-> NoRequest, instance |-> EmptyInstance,
     response |-> NoResponse]

\* The requests the workers answer: authenticated writes on book 1.
ConcurrentRequests ==
    {Request("book-update", "PATCH", TRUE, 1,
             [NoPayload EXCEPT !.supplied = {"title"}, !.title = <<"a", "a">>], NoQuery),
     Request("book-update", "PATCH", TRUE, 1,
             [NoPayload EXCEPT !.supplied = {"author"}, !.author = 2], NoQuery),
     Request("book-update", "PATCH", TRUE, 1,
             [NoPayload EXCEPT !.supplied = {"publication_year"},
                               !.publication_year = StartYear - 1], NoQuery),
     Request("book-update", "PUT", TRUE, 1,
             [supplied |-> Fields, title |-> <<"a", "a">>,
              publication_year |-> StartYear, author |-> 2], NoQuery),
     Request("book-delete", "DELETE", TRUE, 1, NoPayload, NoQuery),
     Request("book-create", "POST", TRUE, 0,
             [supplied |-> Fields, title |-> <<"a">>,
              publication_year |-> StartYear, author |-> 1], NoQuery)}

InitConcurrent ==
    /\ books = (1 :> SeedBook)
    /\ authors = (1 :> <<"A", "a">>) @@ (2 :> <<"b">>)
    /\ nextId = 2
    /\ nextAuthorId = 3
    /\ currentYear = StartYear
    /\ request = NoRequest
    /\ response = NoResponse
    /\ project = "advanced-api-project"
    /\ inflight = [w \in Workers |-> IdleWorker]
    /\ webRequest = NoWebRequest
    /\ webResponse = NoWebResponse
    /\ users = <<>>
    /\ profiles = <<>>
    /\ nextUserId = 1
    /\ nextProfileId = 1
    /\ managerCall = NoCall
    /\ tokens = <<>>

\* Model.save() of a loaded instance: UPDATE of every column of the row
\* with that pk, and INSERT of the row when the UPDATE matched none.
Model_save(store, pk, row) ==
    IF pk \in DOMAIN store THEN [store EXCEPT ![pk] = row] ELSE store @@ (pk :> row)

\* dispatch up to and including get_object(): the permission check and the
\* SELECT of the row.
GetObject(w) ==
    /\ inflight[w].pc = "idle"
    /\ \E req \in ConcurrentRequests :
           inflight' = [inflight EXCEPT ![w] =
               IF ~IsAuthenticated(req)
               THEN [IdleWorker EXCEPT !.pc = "done", !.request = req,
                                       !.response = PermissionDenied]
               ELSE IF req.view = "book-create"
               THEN [IdleWorker EXCEPT !.pc = "loaded", !.request = req]
               ELSE IF req.pk \notin DOMAIN books
               THEN [IdleWorker EXCEPT !.pc = "done", !.request = req,
                                       !.response = NotFound]
               ELSE [IdleWorker EXCEPT !.pc = "loaded", !.request = req,
                                       !.instance = books[req.pk]]]
    /\ UNCHANGED <<apiVars, project, webVars, userVars>>

\* perform_update: the serializer validates and saves the loaded instance.
PerformUpdate(w) ==
    LET req == inflight[w].request
        errs == SerializerErrors(req, req.method = "PATCH", authors, currentYear)
        saved == Model_save(books, req.pk, ValidatedBook(req, inflight[w].instance))
    IN  /\ inflight[w].pc = "loaded"
        /\ req.view = "book-update"
        /\ IF errs # {}
           THEN /\ inflight' = [inflight EXCEPT ![w].pc = "done",
                       ![w].response = Response(HTTP_400_BAD_REQUEST, errs, <<>>)]
                /\ books' = books
           ELSE /\ inflight' = [inflight EXCEPT ![w].pc = "done",
                       ![w].response = Response(HTTP_200_OK, {},
                                                <<Serialize(saved, req.pk)>>)]
                /\ books' = saved
        /\ UNCHANGED <<authors, nextId, nextAuthorId, currentYear, request, response>>
        /\ UNCHANGED <<project, webVars, userVars>>

\* perform_destroy: instance.delete() of the loaded instance.
PerformDestroy(w) ==
    /\ inflight[w].pc = "loaded"
    /\ inflight[w].request.view = "book-delete"
    /\ inflight' = [inflight EXCEPT ![w].pc = "done",
           ![w].response = Response(HTTP_204_NO_CONTENT, {}, <<>>)]
    /\ books' = Remove(books, inflight[w].request.pk)
    /\ UNCHANGED <<authors, nextId, nextAuthorId, currentYear, request, response>>
    /\ UNCHANGED <<project, webVars, userVars>>

\* perform_create: the serializer validates and inserts the row.
PerformCreate(w) ==
    LET out == create(inflight[w].request, books, authors, nextId, currentYear)
    IN  /\ inflight[w].pc = "loaded"
        /\ inflight[w].request.view = "book-create"
        /\ inflight' = [inflight EXCEPT ![w].pc = "done", ![w].response = out.response]
        /\ books' = out.books
        /\ nextId' = out.nextId
        /\ UNCHANGED <<authors, nextAuthorId, currentYear, request, response>>
        /\ UNCHANGED <<project, webVars, userVars>>

NextConcurrent ==
    \E w \in Workers :
        \/ GetObject(w)
        \/ PerformUpdate(w)
        \/ PerformDestroy(w)
        \/ PerformCreate(w)

SpecConcurrent == InitConcurrent /\ [][NextConcurrent]_vars

(***************************************************************************)
(* relationship_app/views.py (advanced_features_and_security and           *)
(* django-models) and bookshelf/views.py: the role views and the           *)
(* permission-protected book views. `project` names the app whose views    *)
(* run; books, authors and nextId are its Book and Author tables.          *)
(***************************************************************************)
RelationshipApp == "LibraryProject/relationship_app"

Bookshelf == "LibraryProject/bookshelf"

DjangoModels == "django-models/relationship_app"

LibraryApps == {RelationshipApp, Bookshelf, DjangoModels}

app_label(app) == IF app = Bookshelf THEN "bookshelf" ELSE "relationship_app"

\* Book.Meta.permissions of each app
Codenames(app) ==
    IF app = DjangoModels
    THEN {"can_add_book", "can_change_book", "can_delete_book"}
    ELSE {"can_view", "can_create", "can_edit", "can_delete"}

Permissions(app) == {<<app_label(app), c>> : c \in Codenames(app)}

\* The argument of @permission_required on each book view.
permission_required(app, view) ==
    <<app_label(app),
      CASE view = "book_list" -> "can_view"
        [] view = "add_book" -> IF app = DjangoModels THEN "can_add_book" ELSE "can_create"
        [] view = "edit_book" -> IF app = DjangoModels THEN "can_change_book" ELSE "can_edit"
        [] view = "delete_book" -> IF app = DjangoModels THEN "can_delete_book" ELSE "can_delete">>

RoleViews == {"admin_view", "librarian_view", "member_view"}

\* UserProfile.ROLE_CHOICES
ROLE_CHOICES == {"Admin", "Librarian", "Member"}

\* The requesters: the anonymous user, a user of each role and one without
\* a profile, users holding no permission, one permission of the app, all
\* of them or all of another app, and a superuser.
Requesters(app) ==
    {AnonymousUser}
    \cup {[is_authenticated |-> TRUE, is_superuser |-> FALSE,
           user_permissions |-> {}, role |-> r] :
            r \in ROLE_CHOICES \cup {NoProfile}}
    \cup {[is_authenticated |-> TRUE, is_superuser |-> FALSE,
           user_permissions |-> ps, role |-> "Member"] :
            ps \in {{q} : q \in Permissions(app)}
                   \cup {Permissions(app), Permissions(Bookshelf),
                         Permissions(RelationshipApp)}}
    \cup {[is_authenticated |-> TRUE, is_superuser |-> TRUE,
           user_permissions |-> {}, role |-> "Member"]}

is_admin_AnyRole(user) == user.is_authenticated /\ user.role # NoProfile

is_admin(user) ==
    user.is_authenticated /\ user.role # NoProfile /\ user.role = "Admin"

is_librarian(user) ==
    user.is_authenticated /\ user.role # NoProfile /\ user.role = "Librarian"

is_member(user) ==
    user.is_authenticated /\ user.role # NoProfile /\ user.role = "Member"

has_perm_Authenticated(user, perm) == user.is_authenticated

has_perm_SameCodename(user, perm) ==
    user.is_authenticated
        /\ (user.is_superuser \/ \E q \in user.user_permissions : q[2] = perm[2])

\* user.has_perm: a superuser holds every permission, the anonymous user
\* none.
has_perm(user, perm) ==
    user.is_authenticated /\ (user.is_superuser \/ perm \in user.user_permissions)

WebResponse(status) == [status |-> status]

\* @user_passes_test(test_func): the view when the test passes, a redirect
\* to the login page otherwise.
user_passes_test(passes) ==
    IF passes THEN WebResponse(HTTP_200_OK) ELSE WebResponse(HTTP_302_FOUND)

admin_view(req) == user_passes_test(is_admin(req.user))

librarian_view(req) == user_passes_test(is_librarian(req.user))

member_view(req) == user_passes_test(is_member(req.user))

\* urls.py: the role view of each route name.
role_view(view, req) ==
    CASE view = "admin_view" -> admin_view(req)
      [] view = "librarian_view" -> librarian_view(req)
      [] view = "member_view" -> member_view(req)

WebRequest(view, method, user, pk, title, author) ==
    [view |-> view, method |-> method, user |-> user, pk |-> pk,
     title |-> title, author |-> author]

Forbidden == WebResponse(HTTP_403_FORBIDDEN)

\* get_object_or_404 found no row
Http404 == WebResponse(HTTP_404_NOT_FOUND)

\* request.POST['title'] and request.POST['author'] (0: not sent or empty)
WebTitles == {<<>>, <<" ">>, <<"a">>, <<"a", "a">>, LongTitle}

WebAuthors == 0..3

\* BookForm(request.POST).is_valid() in relationship_app/forms.py: title is
\* a required CharField (stripped, at most 255 characters), author a
\* required choice among the stored authors.
BookForm_is_valid(req, authorTable) ==
    /\ Strip(req.title) # <<>>
    /\ Len(Strip(req.title)) <= TitleMaxLength
    /\ req.author \in DOMAIN authorTable

\* form.save(): the row the form writes.
BookForm_save(req) == [title |-> Strip(req.title), author |-> req.author]

\* The rows a valid BookForm of bookshelf may write (bookshelf/forms.py is
\* not part of the source: every row is possible).
ShelfRows ==
    {[title |-> t, author |-> n, publication_year |-> StartYear] :
        t \in {<<"a">>, <<"a", "a">>}, n \in AuthorNames}

\* What a POST of add_book / edit_book writes: nothing (the form is
\* rendered again), a 404, or the row in `row`. django-models hands
\* request.POST['title'] to the ORM unvalidated: a title longer than the
\* column is stored (SQLite) or refused by the database (DataError, 500),
\* as the database of the deployment decides.
FormOutcomes(app, req, authorTable) ==
    CASE app = RelationshipApp ->
            IF BookForm_is_valid(req, authorTable)
            THEN {[kind |-> "save", row |-> BookForm_save(req)]}
            ELSE {[kind |-> "render"]}
      [] app = Bookshelf ->
            {[kind |-> "render"]} \cup {[kind |-> "save", row |-> r] : r \in ShelfRows}
      [] app = DjangoModels ->
            IF req.title # <<>> /\ req.author # 0
            THEN IF req.author \in DOMAIN authorTable
                 THEN {[kind |-> "save",
                        row |-> [title |-> req.title, author |-> req.author]]}
                      \cup IF Len(req.title) > TitleMaxLength
                           THEN {[kind |-> "error"]} ELSE {}
                 ELSE {[kind |-> "404"]}
            ELSE {[kind |-> "render"]}

book_list(app, req, store, nid) ==
    IF ~has_perm(req.user, permission_required(app, "book_list"))
    THEN {Outcome(Forbidden, store, nid)}
    ELSE {Outcome(WebResponse(HTTP_200_OK), store, nid)}

add_book(app, req, store, authorTable, nid) ==
    IF ~has_perm(req.user, permission_required(app, "add_book"))
    THEN {Outcome(Forbidden, store, nid)}
    ELSE IF req.method # "POST" THEN {Outcome(WebResponse(HTTP_200_OK), store, nid)}
    ELSE {CASE f.kind = "save" ->
                 Outcome(WebResponse(HTTP_302_FOUND), store @@ (nid :> f.row), nid + 1)
            [] f.kind = "404" -> Outcome(Http404, store, nid)
            [] f.kind = "error" ->
                 Outcome(WebResponse(HTTP_500_INTERNAL_SERVER_ERROR), store, nid)
            [] f.kind = "render" -> Outcome(WebResponse(HTTP_200_OK), store, nid) :
          f \in FormOutcomes(app, req, authorTable)}

\* edit_book looking the book up before the permission is checked.
edit_book_LookupFirst(app, req, store, authorTable, nid) ==
    IF req.pk \notin DOMAIN store THEN {Outcome(Http404, store, nid)}
    ELSE IF ~has_perm(req.user, permission_required(app, "edit_book"))
    THEN {Outcome(Forbidden, store, nid)}
    ELSE IF req.method # "POST" THEN {Outcome(WebResponse(HTTP_200_OK), store, nid)}
    ELSE {CASE f.kind = "save" ->
                 Outcome(WebResponse(HTTP_302_FOUND),
                         [store EXCEPT ![req.pk] = f.row], nid)
            [] f.kind = "404" -> Outcome(Http404, store, nid)
            [] f.kind = "error" ->
                 Outcome(WebResponse(HTTP_500_INTERNAL_SERVER_ERROR), store, nid)
            [] f.kind = "render" -> Outcome(WebResponse(HTTP_200_OK), store, nid) :
          f \in FormOutcomes(app, req, authorTable)}

edit_book(app, req, store, authorTable, nid) ==
    IF ~has_perm(req.user, permission_required(app, "edit_book"))
    THEN {Outcome(Forbidden, store, nid)}
    ELSE IF req.pk \notin DOMAIN store THEN {Outcome(Http404, store, nid)}
    ELSE IF req.method # "POST" THEN {Outcome(WebResponse(HTTP_200_OK), store, nid)}
    ELSE {CASE f.kind = "save" ->
                 Outcome(WebResponse(HTTP_302_FOUND),
                         [store EXCEPT ![req.pk] = f.row], nid)
            [] f.kind = "404" -> Outcome(Http404, store, nid)
            [] f.kind = "error" ->
                 Outcome(WebResponse(HTTP_500_INTERNAL_SERVER_ERROR), store, nid)
            [] f.kind = "render" -> Outcome(WebResponse(HTTP_200_OK), store, nid) :
          f \in FormOutcomes(app, req, authorTable)}

\* delete_book without its `if request.method == 'POST'`.
delete_book_AnyMethod(app, req, store, nid) ==
    IF ~has_perm(req.user, permission_required(app, "delete_book"))
    THEN {Outcome(Forbidden, store, nid)}
    ELSE IF req.pk \notin DOMAIN store THEN {Outcome(Http404, store, nid)}
    ELSE {Outcome(WebResponse(HTTP_302_FOUND), Remove(store, req.pk), nid)}

delete_book(app, req, store, nid) ==
    IF ~has_perm(req.user, permission_required(app, "delete_book"))
    THEN {Outcome(Forbidden, store, nid)}
    ELSE IF req.pk \notin DOMAIN store THEN {Outcome(Http404, store, nid)}
    ELSE IF req.method = "POST"
    THEN {Outcome(WebResponse(HTTP_302_FOUND), Remove(store, req.pk), nid)}
    ELSE {Outcome(WebResponse(HTTP_200_OK), store, nid)}

WebIdle == webRequest = NoWebRequest

\* The view answers the request: the whole view function, database write
\* included.
WebServe(req, resp, store, nid) ==
    /\ nid <= MaxBooks + 1
    /\ webRequest' = req
    /\ webResponse' = resp
    /\ books' = store
    /\ nextId' = nid
    /\ UNCHANGED <<authors, nextAuthorId, currentYear, request, response>>
    /\ UNCHANGED <<project, inflight, userVars>>

\* A request for one of the role views, which exist in relationship_app.
RoleRequest(view, user) == WebRequest(view, "GET", user, 0, <<>>, 0)

AdminView ==
    /\ WebIdle
    /\ project # Bookshelf
    /\ \E user \in Requesters(project) :
           LET req == RoleRequest("admin_view", user)
           IN  WebServe(req, admin_view(req), books, nextId)

LibrarianView ==
    /\ WebIdle
    /\ project # Bookshelf
    /\ \E user \in Requesters(project) :
           LET req == RoleRequest("librarian_view", user)
           IN  WebServe(req, librarian_view(req), books, nextId)

MemberView ==
    /\ WebIdle
    /\ project # Bookshelf
    /\ \E user \in Requesters(project) :
           LET req == RoleRequest("member_view", user)
           IN  WebServe(req, member_view(req), books, nextId)

\* The form data of each request: a GET sends none, and of the form of
\* bookshelf nothing is read here.
FormData(app, method) ==
    IF method = "GET" \/ app = Bookshelf THEN {<<(<<>>), 0>>}
    ELSE WebTitles \X WebAuthors

BookList ==
    /\ WebIdle
    /\ project # DjangoModels
    /\ \E user \in Requesters(project), m \in {"GET", "POST"} :
           LET req == WebRequest("book_list", m, user, 0, <<>>, 0)
           IN  \E out \in book_list(project, req, books, nextId) :
                   WebServe(req, out.response, out.books, out.nextId)

AddBook ==
    /\ WebIdle
    /\ \E user \in Requesters(project), m \in {"GET", "POST"} :
         \E d \in FormData(project, m) :
           LET req == WebRequest("add_book", m, user, 0, d[1], d[2])
           IN  \E out \in add_book(project, req, books, authors, nextId) :
                   WebServe(req, out.response, out.books, out.nextId)

EditBook ==
    /\ WebIdle
    /\ \E user \in Requesters(project), m \in {"GET", "POST"}, pk \in BookPks :
         \E d \in FormData(project, m) :
           LET req == WebRequest("edit_book", m, user, pk, d[1], d[2])
           IN  \E out \in edit_book(project, req, books, authors, nextId) :
                   WebServe(req, out.response, out.books, out.nextId)

DeleteBook ==
    /\ WebIdle
    /\ \E user \in Requesters(project), m \in {"GET", "POST"}, pk \in BookPks :
           LET req == WebRequest("delete_book", m, user, pk, <<>>, 0)
           IN  \E out \in delete_book(project, req, books, nextId) :
                   WebServe(req, out.response, out.books, out.nextId)

\* The response reaches the browser.
WebReturn ==
    /\ ~WebIdle
    /\ webRequest' = NoWebRequest
    /\ webResponse' = NoWebResponse
    /\ UNCHANGED <<apiVars, project, inflight, userVars>>

NextLibrary ==
    \/ AdminView
    \/ LibrarianView
    \/ MemberView
    \/ BookList
    \/ AddBook
    \/ EditBook
    \/ DeleteBook
    \/ WebReturn

\* The tables of every project start as in Init; `project` is the app
\* whose views run.
InitProject(apps) ==
    /\ books = <<>>
    /\ authors = (1 :> <<"A", "a">>) @@ (2 :> <<"b">>)
    /\ nextId = 1
    /\ nextAuthorId = 3
    /\ currentYear = StartYear
    /\ request = NoRequest
    /\ response = NoResponse
    /\ project \in apps
    /\ inflight = <<>>
    /\ webRequest = NoWebRequest
    /\ webResponse = NoWebResponse
    /\ users = <<>>
    /\ profiles = <<>>
    /\ nextUserId = 1
    /\ nextProfileId = 1
    /\ managerCall = NoCall
    /\ tokens = <<>>

InitLibrary == InitProject(LibraryApps)

SpecLibrary == InitLibrary /\ [][NextLibrary]_vars

\* Every project of the repository that protects views: the book API of
\* advanced-api-project and the three apps above.
InitSites == InitProject(LibraryApps \cup {"advanced-api-project"})

NextSites ==
    \/ project = "advanced-api-project" /\ Next
    \/ project \in LibraryApps /\ NextLibrary

SpecSites == InitSites /\ [][NextSites]_vars

(***************************************************************************)
(* relationship_app/models.py: UserProfile and the post_save receivers of  *)
(* the user model.                                                         *)
(***************************************************************************)
create_user_profile_Always(created, user, profs, npid) ==
    [profiles |-> profs @@ (npid :> [user |-> user, role |-> "Member"]),
     next |-> npid + 1]

\* create_user_profile: UserProfile.objects.create(user=instance) when the
\* user was created; role has default='Member'.
create_user_profile(created, user, profs, npid) ==
    IF created
    THEN [profiles |-> profs @@ (npid :> [user |-> user, role |-> "Member"]),
          next |-> npid + 1]
    ELSE [profiles |-> profs, next |-> npid]

\* save_user_profile: instance.userprofile.save(). Without a profile
\* nothing is written (hasattr is false in advanced_features_and_security,
\* the receiver of django-models raises).
save_user_profile(user, profs) ==
    LET mine == {p \in DOMAIN profs : profs[p].user = user}
    IN  IF mine = {} THEN profs
        ELSE LET p == CHOOSE p \in mine : TRUE
             IN  Model_save(profs, p, profs[p])

\* The post_save signal of the user model: both receivers in the order
\* they are connected.
post_save(created, user, profs, npid) ==
    LET made == create_user_profile(created, user, profs, npid)
    IN  [profiles |-> save_user_profile(user, made.profiles), next |-> made.next]

InitUsers == InitProject({RelationshipApp, DjangoModels})

\* User.objects.create_user(...) / form.save() in register
CreateUser ==
    /\ nextUserId <= MaxUsers
    /\ LET sent == post_save(TRUE, nextUserId, profiles, nextProfileId)
       IN  /\ users' = users @@ (nextUserId :> [last_login |-> 0])
           /\ profiles' = sent.profiles
           /\ nextProfileId' = sent.next
    /\ nextUserId' = nextUserId + 1
    /\ UNCHANGED <<apiVars, project, inflight, webVars, managerCall, tokens>>

\* user.save() of a stored user, as login(request, user) does to record
\* last_login.
SaveUser ==
    /\ \E u \in DOMAIN users, t \in 0..1 :
           LET sent == post_save(FALSE, u, profiles, nextProfileId)
           IN  /\ users' = [users EXCEPT ![u].last_login = t]
               /\ profiles' = sent.profiles
               /\ nextProfileId' = sent.next
    /\ UNCHANGED <<apiVars, project, inflight, webVars, nextUserId, managerCall, tokens>>

\* user.delete(): UserProfile.user has on_delete=models.CASCADE.
DeleteUser ==
    /\ \E u \in DOMAIN users :
           /\ users' = Remove(users, u)
           /\ profiles' = [p \in {q \in DOMAIN profiles : profiles[q].user # u}
                              |-> profiles[p]]
    /\ UNCHANGED <<apiVars, project, inflight, webVars, nextUserId, nextProfileId,
                   managerCall, tokens>>

\* profile.role = role; profile.save() (UserProfileAdmin)
ChangeRole ==
    /\ \E p \in DOMAIN profiles, role \in ROLE_CHOICES :
           profiles' = [profiles EXCEPT ![p].role = role]
    /\ UNCHANGED <<apiVars, project, inflight, webVars, users, nextUserId, nextProfileId,
                   managerCall, tokens>>

NextUsers ==
    \/ CreateUser
    \/ SaveUser
    \/ DeleteUser
    \/ ChangeRole

SpecUsers == InitUsers /\ [][NextUsers]_vars

(***************************************************************************)
(* CustomUserManager of relationship_app and bookshelf                     *)
(* (advanced_features_and_security): the two classes are the same code.    *)
(***************************************************************************)
Usernames == {"", "alice", "bob"}

\* What a caller passes for is_staff / is_superuser: nothing, or the Python
\* value True, False or 1 (truthy, but not the object True).
FlagValues == {"unset", "True", "False", "1"}

\* The outcome of a manager call: the exception raised ("" for none), the
\* User table, the next primary key and the pk of the user returned.
Raised(exc, table, nid) ==
    [raised |-> exc, users |-> table, next |-> nid, returned |-> 0]

\* create_user: `if not username: raise ValueError`, then
\* self.model(username=..., **extra_fields) and user.save();
\* AbstractUser.username is unique, is_staff and is_superuser default to
\* False.
create_user(username, is_staff, is_superuser, table, nid) ==
    IF username = "" THEN Raised("ValueError", table, nid)
    ELSE IF \E u \in DOMAIN table : table[u].username = username
    THEN Raised("IntegrityError", table, nid)
    ELSE [raised |-> "",
          users |-> table @@ (nid :> [username |-> username,
                                      is_staff |-> is_staff \in {"True", "1"},
                                      is_superuser |-> is_superuser \in {"True", "1"},
                                      last_login |-> 0]),
          next |-> nid + 1,
          returned |-> nid]

\* extra_fields.setdefault(key, True)
setdefault(value) == IF value = "unset" THEN "True" ELSE value

\* create_superuser without its two `is not True` checks.
create_superuser_Unchecked(username, is_staff, is_superuser, table, nid) ==
    create_user(username, setdefault(is_staff), setdefault(is_superuser), table, nid)

\* create_superuser: the defaults, the two `is not True` checks, then
\* create_user.
create_superuser(username, is_staff, is_superuser, table, nid) ==
    IF setdefault(is_staff) # "True" \/ setdefault(is_superuser) # "True"
    THEN Raised("ValueError", table, nid)
    ELSE create_user(username, setdefault(is_staff), setdefault(is_superuser),
                     table, nid)

\* The call ends: the tables are as the manager left them, and in
\* relationship_app the post_save receivers have run for a created user.
ManagerCall(op, username, is_staff, is_superuser, out) ==
    LET sent == IF out.returned # 0 /\ project = RelationshipApp
                THEN post_save(TRUE, out.returned, profiles, nextProfileId)
                ELSE [profiles |-> profiles, next |-> nextProfileId]
    IN  /\ nextUserId <= MaxUsers
        /\ managerCall' = [op |-> op, username |-> username, is_staff |-> is_staff,
                           is_superuser |-> is_superuser, raised |-> out.raised,
                           returned |-> out.returned]
        /\ users' = out.users
        /\ nextUserId' = out.next
        /\ profiles' = sent.profiles
        /\ nextProfileId' = sent.next
        /\ UNCHANGED <<apiVars, project, inflight, webVars, tokens>>

CreateUserCall ==
    \E username \in Usernames, is_staff, is_superuser \in FlagValues :
        ManagerCall("create_user", username, is_staff, is_superuser,
                    create_user(username, is_staff, is_superuser, users, nextUserId))

CreateSuperuserCall ==
    \E username \in Usernames, is_staff, is_superuser \in FlagValues :
        ManagerCall("create_superuser", username, is_staff, is_superuser,
                    create_superuser(username, is_staff, is_superuser, users,
                                     nextUserId))

InitManagers == InitProject({RelationshipApp, Bookshelf})

NextManagers ==
    \/ CreateUserCall
    \/ CreateSuperuserCall

SpecManagers == InitManagers /\ [][NextManagers]_vars

(***************************************************************************)
(* api_project: BookList, BookViewSet and the token endpoint               *)
(***************************************************************************)
ApiProject == "api_project"

\* The keys a Token can have; 0 stands for a request without an
\* Authorization header.
Keys == 1..MaxTokens

\* The accounts of the site (django.contrib.auth User).
Accounts ==
    (1 :> [username |-> "alice", password |-> "a"])
        @@ (2 :> [username |-> "bob", password |-> "b"])

\* The username and password a client posts ("" when absent).
Credentials == {"", "alice", "bob"} \X {"", "a", "b"}

\* A JSON body for the Book of api_project: title and author are text.
ApiPayloads ==
    {[supplied |-> f,
      title |-> IF "title" \in f THEN t ELSE <<>>,
      author |-> IF "author" \in f THEN a ELSE <<>>] :
        f \in SUBSET {"title", "author"},
        t \in {<<"a">>, <<"a", "a">>, LongTitle},
        a \in {<<"b">>}}

\* token: the key in the Authorization header; session: the user logged
\* in on the session cookie (0 for none).
ApiRequest(view, method, token, session, pk, p, cred) ==
    [view |-> view, method |-> method, token |-> token, session |-> session,
     pk |-> pk, supplied |-> p.supplied, title |-> p.title, author |-> p.author,
     username |-> cred[1], password |-> cred[2]]

\* TokenAuthentication accepting any key.
perform_authentication_AnyToken(req, tokenTable) ==
    IF req.token # 0 THEN 1 ELSE req.session

\* DEFAULT_AUTHENTICATION_CLASSES: TokenAuthentication looks the key up in
\* the Token table (AuthenticationFailed, here -1, when it is not there);
\* without a header SessionAuthentication gives the session's user, or the
\* request stays anonymous (0).
perform_authentication(req, tokenTable) ==
    IF req.token # 0
    THEN IF req.token \in DOMAIN tokenTable THEN tokenTable[req.token] ELSE -1
    ELSE req.session

\* NotAuthenticated / AuthenticationFailed with TokenAuthentication first:
\* 401 and a WWW-Authenticate header.
Unauthorized == Response(HTTP_401_UNAUTHORIZED, {}, <<>>)

\* APIView.initial without the permission check.
initial_NoPermission(req, tokenTable) ==
    perform_authentication(req, tokenTable) # -1

\* APIView.initial: authentication, then permission_classes
\* [IsAuthenticated] (the default of the settings for BookList).
initial(req, tokenTable) ==
    LET user == perform_authentication(req, tokenTable)
    IN  user # -1 /\ IsAuthenticated([authenticated |-> user > 0])

\* BookSerializer (fields = '__all__'): title and author are required
\* CharFields, trimmed, not blank, at most max_length long.
BookSerializer_errors(req, partial) ==
    {f \in {"title", "author"} :
        IF f \notin req.supplied THEN ~partial
        ELSE \/ Strip(req[f]) = <<>>
             \/ Len(Strip(req[f])) >
                    (IF f = "title" THEN ApiTitleMaxLength ELSE ApiAuthorMaxLength)}

\* serializer.save(): the supplied fields replace those of the instance.
BookSerializer_save(req, instance) ==
    [f \in {"title", "author"} |->
        IF f \in req.supplied THEN Strip(req[f]) ELSE instance[f]]

MethodNotAllowedResponse == Response(HTTP_405_METHOD_NOT_ALLOWED, {}, <<>>)

\* BookList(generics.ListAPIView): only GET has a handler.
ListAPIView(req, store, nid, tokenTable) ==
    IF ~initial(req, tokenTable) THEN Outcome(Unauthorized, store, nid)
    ELSE IF req.method # "GET" THEN Outcome(MethodNotAllowedResponse, store, nid)
    ELSE Outcome(Response(HTTP_200_OK, {}, store), store, nid)

\* BookViewSet(viewsets.ModelViewSet) behind the router: list and create
\* on books_all/, retrieve, update, partial_update and destroy on
\* books_all/<pk>/.
ModelViewSet(req, store, nid, tokenTable) ==
    LET errs == BookSerializer_errors(req, req.method = "PATCH")
        BadRequest == Outcome(Response(HTTP_400_BAD_REQUEST, errs, <<>>), store, nid)
    IN  IF ~initial(req, tokenTable) THEN Outcome(Unauthorized, store, nid)
        ELSE IF req.view = "book_all-list"
        THEN CASE req.method = "GET" ->
                      Outcome(Response(HTTP_200_OK, {}, store), store, nid)
               [] req.method = "POST" ->
                      IF errs # {} THEN BadRequest
                      ELSE LET row == BookSerializer_save(req, [title |-> <<>>,
                                                                author |-> <<>>])
                           IN  Outcome(Response(HTTP_201_CREATED, {}, <<row>>),
                                       store @@ (nid :> row), nid + 1)
               [] OTHER -> Outcome(MethodNotAllowedResponse, store, nid)
        ELSE IF req.method \notin {"GET", "PUT", "PATCH", "DELETE"}
        THEN Outcome(MethodNotAllowedResponse, store, nid)
        ELSE IF req.pk \notin DOMAIN store THEN Outcome(NotFound, store, nid)
        ELSE CASE req.method = "GET" ->
                      Outcome(Response(HTTP_200_OK, {}, <<store[req.pk]>>), store, nid)
               [] req.method = "DELETE" ->
                      Outcome(Response(HTTP_204_NO_CONTENT, {}, <<>>),
                              Remove(store, req.pk), nid)
               [] OTHER ->
                      IF errs # {} THEN BadRequest
                      ELSE LET row == BookSerializer_save(req, store[req.pk])
                           IN  Outcome(Response(HTTP_200_OK, {}, <<row>>),
                                       [store EXCEPT ![req.pk] = row], nid)

\* obtain_auth_token (ObtainAuthToken.post): AuthTokenSerializer checks the
\* username and password with authenticate(); Token.objects.get_or_create
\* returns the user's token or makes one with a fresh key.
obtain_auth_token(req, userTable, tokenTable) ==
    LET user == {u \in DOMAIN userTable :
                    /\ userTable[u].username = req.username
                    /\ userTable[u].password = req.password}
        mine == {k \in DOMAIN tokenTable : tokenTable[k] \in user}
    IN  IF perform_authentication(req, tokenTable) = -1
        THEN {[response |-> Unauthorized, tokens |-> tokenTable]}
        ELSE IF req.method # "POST"
        THEN {[response |-> MethodNotAllowedResponse, tokens |-> tokenTable]}
        ELSE IF user = {}
        THEN {[response |-> Response(HTTP_400_BAD_REQUEST, {"non_field_errors"}, <<>>),
               tokens |-> tokenTable]}
        ELSE IF mine # {}
        THEN {[response |-> Response(HTTP_200_OK, {}, <<k>>), tokens |-> tokenTable] :
                 k \in mine}
        ELSE {[response |-> Response(HTTP_200_OK, {}, <<k>>),
               tokens |-> tokenTable @@ (k :> CHOOSE u \in user : TRUE)] :
                 k \in Keys \ DOMAIN tokenTable}

\* The view answers the request: the whole handler, database writes
\* included.
ApiServe(req, resp, store, nid, tokenTable) ==
    /\ Idle
    /\ nid <= MaxBooks + 1
    /\ request' = req
    /\ response' = resp
    /\ books' = store
    /\ nextId' = nid
    /\ tokens' = tokenTable
    /\ UNCHANGED <<authors, nextAuthorId, currentYear, project, inflight, webVars>>
    /\ UNCHANGED <<users, profiles, nextUserId, nextProfileId, managerCall>>

\* A request to api/books/
ApiBookList ==
    \E m \in Methods, token \in {0} \cup Keys, session \in {0, 1},
       p \in ApiPayloads :
        LET req == ApiRequest("book-list", m, token, session, 0, p, <<"", "">>)
            out == ListAPIView(req, books, nextId, tokens)
        IN  /\ p.supplied \in {{}, {"title", "author"}}
            /\ m = "GET" => p.supplied = {}
            /\ ApiServe(req, out.response, out.books, out.nextId, tokens)

\* A request to api/books_all/ or api/books_all/<pk>/
BookViewSet ==
    \E m \in Methods, token \in {0} \cup Keys, session \in {0, 1},
       pk \in {0} \cup BookPks, p \in ApiPayloads :
        LET req == ApiRequest(IF pk = 0 THEN "book_all-list" ELSE "book_all-detail",
                              m, token, session, pk, p, <<"", "">>)
            out == ModelViewSet(req, books, nextId, tokens)
        IN  /\ m \in {"GET", "DELETE"} => p.supplied = {}
            /\ ApiServe(req, out.response, out.books, out.nextId, tokens)

\* A request to api-token-auth/
ObtainAuthToken ==
    \E m \in {"GET", "POST"}, token \in {0} \cup Keys, cred \in Credentials :
        LET req == ApiRequest("api_token_auth", m, token, 0, 0,
                              [supplied |-> {}, title |-> <<>>, author |-> <<>>], cred)
        IN  \E out \in obtain_auth_token(req, users, tokens) :
                ApiServe(req, out.response, books, nextId, out.tokens)

InitApiProject ==
    /\ books = <<>>
    /\ authors = <<>>
    /\ nextId = 1
    /\ nextAuthorId = 1
    /\ currentYear = StartYear
    /\ request = NoRequest
    /\ response = NoResponse
    /\ project = ApiProject
    /\ inflight = <<>>
    /\ webRequest = NoWebRequest
    /\ webResponse = NoWebResponse
    /\ users = Accounts
    /\ profiles = <<>>
    /\ nextUserId = 3
    /\ nextProfileId = 1
    /\ managerCall = NoCall
    /\ tokens = <<>>

NextApiProject ==
    \/ ApiBookList
    \/ BookViewSet
    \/ ObtainAuthToken
    \/ Return

SpecApiProject == InitApiProject /\ [][NextApiProject]_vars

(***************************************************************************)
(* Properties                                                              *)
(***************************************************************************)
WriteViews == {"book-create", "book-update", "book-delete"}

\* The values a request supplies pass the field validation.
SuppliedValuesValid(r) ==
    /\ "title" \in r.supplied =>
          Strip(r.title) # <<>> /\ Len(Strip(r.title)) <= TitleMaxLength
    /\ "publication_year" \in r.supplied => r.publication_year <= currentYear
    /\ "author" \in r.supplied => r.author \in DOMAIN authors

\* What a GET of book-detail answers for `id` in the table `store`.
GetBook(store, id) ==
    retrieve(Request("book-detail", "GET", FALSE, id, NoPayload, NoQuery),
             store, 0).response

\* This step added exactly one book, left the others alone, and reading
\* the new book returns `title` and the submitted year and author.
CreatedAndReadBack(title) ==
    \E id \in (DOMAIN books') \ (DOMAIN books) :
        /\ DOMAIN books' = (DOMAIN books) \cup {id}
        /\ \A b \in DOMAIN books : books'[b] = books[b]
        /\ GetBook(books', id).status = HTTP_200_OK
        /\ GetBook(books', id).data[1].title = title
        /\ GetBook(books', id).data[1].publication_year = request'.publication_year
        /\ GetBook(books', id).data[1].author = request'.author

\* This step changed, in the Book table, the row request'.pk to `row`
\* and nothing else.
OnlyRowBecomes(row) ==
    /\ DOMAIN books' = DOMAIN books
    /\ books'[request'.pk] = row
    /\ \A b \in (DOMAIN books) \ {request'.pk} : books'[b] = books[b]

\* C1: an unauthenticated POST to book-create, PUT or PATCH to book-update,
\* or DELETE to book-delete is answered 401 or 403 and leaves the set of
\* stored books and every field of every book unchanged.
C1_UnauthenticatedWriteRejected ==
    [][(request'.view \in WriteViews /\ ~request'.authenticated)
          => /\ response'.status \in {HTTP_401_UNAUTHORIZED, HTTP_403_FORBIDDEN}
             /\ books' = books]_vars

\* An unauthenticated PUT with a valid body to an existing book was refused.
C1_Witness ==
    /\ request.view = "book-update"
    /\ request.method = "PUT"
    /\ ~request.authenticated
    /\ request.pk \in DOMAIN books
    /\ request.supplied = Fields
    /\ SuppliedValuesValid(request)
    /\ response.status = HTTP_403_FORBIDDEN

\* C2: GET on book-list and GET on book-detail of an existing book return
\* 200 whether or not the requester is authenticated, and a book-list GET
\* without query parameters returns every stored book exactly once.
C2_ReadsAreOpen ==
    /\ (request.view = "book-detail" /\ request.method = "GET"
           /\ request.pk \in DOMAIN books)
          => /\ response.status = HTTP_200_OK
             /\ response.data = <<Serialize(books, request.pk)>>
    /\ request.view = "book-list" /\ request.method = "GET"
          => /\ response.status = HTTP_200_OK
             /\ request.query.params = {}
                   => /\ Len(response.data) = Cardinality(DOMAIN books)
                      /\ \A id \in DOMAIN books :
                            \E i \in 1..Len(response.data) :
                                response.data[i] = Serialize(books, id)

\* An unauthenticated list without parameters returned both stored books.
C2_Witness ==
    /\ request.view = "book-list"
    /\ ~request.authenticated
    /\ request.query.params = {}
    /\ Cardinality(DOMAIN books) = 2
    /\ Len(response.data) = 2

\* C3 as stated: an authenticated POST to book-create with a title (a
\* string that is not blank), a publication_year not greater than the
\* current year and the id of an existing author returns 201, adds exactly one book (the others
\* unchanged), and a GET of the new book returns the title, year and
\* author that were submitted.
C3_AsStated ==
    [][(/\ request'.view = "book-create"
        /\ request'.method = "POST"
        /\ request'.authenticated
        /\ request'.supplied = Fields
        /\ Strip(request'.title) # <<>>
        /\ request'.publication_year <= currentYear
        /\ request'.author \in DOMAIN authors)
          => /\ response'.status = HTTP_201_CREATED
             /\ CreatedAndReadBack(request'.title)]_vars

\* C3 amended: when moreover the title, with surrounding whitespace
\* removed, is at most 255 characters long, the POST returns 201, adds
\* exactly one book, and a GET of the new book returns the submitted
\* title with surrounding whitespace removed and the submitted year and
\* author.
C3_CreateThenRead ==
    [][(/\ request'.view = "book-create"
        /\ request'.method = "POST"
        /\ request'.authenticated
        /\ request'.supplied = Fields
        /\ Strip(request'.title) # <<>>
        /\ Len(Strip(request'.title)) <= TitleMaxLength
        /\ request'.publication_year <= currentYear
        /\ request'.author \in DOMAIN authors)
          => /\ response'.status = HTTP_201_CREATED
             /\ CreatedAndReadBack(Strip(request'.title))]_vars

\* A second book was created from a title with surrounding whitespace.
C3_Witness ==
    /\ request.view = "book-create"
    /\ response.status = HTTP_201_CREATED
    /\ request.title # Strip(request.title)
    /\ Cardinality(DOMAIN books) = 2
    /\ books[response.data[1].id].title = Strip(request.title)

\* C4: an authenticated POST to book-create, or PUT to book-update of a
\* stored book, whose body lacks a required field or carries a
\* publication_year greater than the current year returns 400 (with the
\* key 'publication_year' among the errors in the future-year case) and
\* leaves the stored books unchanged.
C4_InvalidWriteRejected ==
    [][(/\ request'.authenticated
        /\ \/ request'.view = "book-create" /\ request'.method = "POST"
           \/ /\ request'.view = "book-update"
              /\ request'.method = "PUT"
              /\ request'.pk \in DOMAIN books
        /\ \/ request'.supplied # Fields
           \/ /\ "publication_year" \in request'.supplied
              /\ request'.publication_year > currentYear)
          => /\ response'.status = HTTP_400_BAD_REQUEST
             /\ ("publication_year" \in request'.supplied
                    /\ request'.publication_year > currentYear)
                   => "publication_year" \in response'.errors
             /\ books' = books]_vars

\* A complete PUT to a stored book failed only on its future year.
C4_Witness ==
    /\ request.view = "book-update"
    /\ request.method = "PUT"
    /\ request.authenticated
    /\ request.pk \in DOMAIN books
    /\ request.supplied = Fields
    /\ request.publication_year > currentYear
    /\ response.status = HTTP_400_BAD_REQUEST
    /\ response.errors = {"publication_year"}

\* C5: after any sequence of requests every stored book has a
\* publication_year not greater than the current year; a PATCH that
\* supplies only publication_year is validated like a full update.
C5_NoFutureYearStored ==
    /\ \A b \in DOMAIN books : books[b].publication_year <= currentYear
    /\ (/\ request.view = "book-update"
        /\ request.method = "PATCH"
        /\ request.authenticated
        /\ request.pk \in DOMAIN books
        /\ request.supplied = {"publication_year"}
        /\ request.publication_year > currentYear)
          => /\ response.status = HTTP_400_BAD_REQUEST
             /\ response.errors = {"publication_year"}

\* A PATCH of only a future publication_year to a stored book was refused.
C5_Witness ==
    /\ request.view = "book-update"
    /\ request.method = "PATCH"
    /\ request.authenticated
    /\ request.pk \in DOMAIN books
    /\ request.supplied = {"publication_year"}
    /\ request.publication_year > currentYear
    /\ response.status = HTTP_400_BAD_REQUEST

\* A complete body whose values are valid, sent by an authenticated client
\* to book-update of a stored book with the given method.
ValidUpdate(method) ==
    /\ request'.view = "book-update"
    /\ request'.method = method
    /\ request'.authenticated
    /\ request'.pk \in DOMAIN books
    /\ SuppliedValuesValid(request')

\* C6 as stated: an authenticated PUT with a valid body to a stored book
\* returns 200 and the book then has exactly the submitted title,
\* publication_year and author; its id is unchanged, no book is added or
\* removed and no other book is modified.
C6_AsStated ==
    [][(ValidUpdate("PUT") /\ request'.supplied = Fields)
          => /\ response'.status = HTTP_200_OK
             /\ response'.data[1].id = request'.pk
             /\ OnlyRowBecomes([title |-> request'.title,
                                publication_year |-> request'.publication_year,
                                author |-> request'.author])]_vars

\* C6 amended: the stored title is the submitted title with surrounding
\* whitespace removed; the rest as stated.
C6_PutReplacesBook ==
    [][(ValidUpdate("PUT") /\ request'.supplied = Fields)
          => /\ response'.status = HTTP_200_OK
             /\ response'.data[1].id = request'.pk
             /\ OnlyRowBecomes([title |-> Strip(request'.title),
                                publication_year |-> request'.publication_year,
                                author |-> request'.author])]_vars

\* A PUT moved one of two stored books to author 2.
C6_Witness ==
    /\ request.view = "book-update"
    /\ request.method = "PUT"
    /\ response.status = HTTP_200_OK
    /\ Cardinality(DOMAIN books) = 2
    /\ request.author = 2
    /\ books[request.pk].author = 2
    /\ \E b \in DOMAIN books : books[b].author = 1

\* The row of a stored book after a PATCH took effect: the supplied fields
\* carry `title` and the submitted year and author, the others are kept.
Patched(row, title) ==
    [title |-> IF "title" \in request'.supplied THEN title ELSE row.title,
     publication_year |-> IF "publication_year" \in request'.supplied
                          THEN request'.publication_year
                          ELSE row.publication_year,
     author |-> IF "author" \in request'.supplied
                THEN request'.author ELSE row.author]

\* C7 as stated: an authenticated PATCH to a stored book that supplies a
\* subset of the fields returns 200, sets exactly the supplied fields to
\* the supplied values and leaves the other fields of the book and every
\* other book unchanged.
C7_AsStated ==
    [][(/\ request'.view = "book-update"
        /\ request'.method = "PATCH"
        /\ request'.authenticated
        /\ request'.pk \in DOMAIN books)
          => /\ response'.status = HTTP_200_OK
             /\ OnlyRowBecomes(Patched(books[request'.pk], request'.title))]_vars

\* C7 amended: when the supplied values are valid (a title that is not
\* blank and at most 255 characters once surrounding whitespace is
\* removed, a publication_year not greater than the current year, the id
\* of an existing author), the PATCH returns 200, sets exactly the
\* supplied fields to the supplied values (the title with surrounding
\* whitespace removed) and leaves everything else unchanged.
C7_PatchChangesOnlySupplied ==
    [][ValidUpdate("PATCH")
          => /\ response'.status = HTTP_200_OK
             /\ OnlyRowBecomes(Patched(books[request'.pk],
                                       Strip(request'.title)))]_vars

\* A PATCH of the title alone, submitted with surrounding whitespace,
\* succeeded on one of two stored books and kept its year and author.
C7_Witness ==
    /\ request.view = "book-update"
    /\ request.method = "PATCH"
    /\ request.supplied = {"title"}
    /\ request.title # Strip(request.title)
    /\ response.status = HTTP_200_OK
    /\ Cardinality(DOMAIN books) = 2
    /\ books[request.pk].title = Strip(request.title)
    /\ books[request.pk].publication_year \in Years
    /\ books[request.pk].author \in DOMAIN authors

\* C8: an authenticated DELETE of a stored book returns 204; afterwards
\* no book has that id, there is exactly one book fewer, and the other
\* books and all authors are unchanged.
C8_DeleteRemovesOne ==
    [][(/\ request'.view = "book-delete"
        /\ request'.method = "DELETE"
        /\ request'.authenticated
        /\ request'.pk \in DOMAIN books)
          => /\ response'.status = HTTP_204_NO_CONTENT
             /\ request'.pk \notin DOMAIN books'
             /\ Cardinality(DOMAIN books') = Cardinality(DOMAIN books) - 1
             /\ \A b \in (DOMAIN books) \ {request'.pk} :
                   b \in DOMAIN books' /\ books'[b] = books[b]
             /\ authors' = authors]_vars

\* A book was deleted and another one is still stored.
C8_Witness ==
    /\ request.view = "book-delete"
    /\ response.status = HTTP_204_NO_CONTENT
    /\ request.pk \notin DOMAIN books
    /\ DOMAIN books # {}

\* C9: a GET on book-detail, or an authenticated PUT, PATCH or DELETE,
\* that names an id no stored book has returns 404 and leaves the stored
\* books unchanged.
C9_MissingBookIs404 ==
    [][(/\ request'.pk \notin DOMAIN books
        /\ \/ request'.view = "book-detail" /\ request'.method = "GET"
           \/ /\ request'.view = "book-update"
              /\ request'.method \in {"PUT", "PATCH"}
              /\ request'.authenticated
           \/ /\ request'.view = "book-delete"
              /\ request'.method = "DELETE"
              /\ request'.authenticated)
          => /\ response'.status = HTTP_404_NOT_FOUND
             /\ books' = books]_vars

\* An authenticated PUT with a valid body named an id that is not stored.
C9_Witness ==
    /\ request.view = "book-update"
    /\ request.method = "PUT"
    /\ request.authenticated
    /\ request.supplied = Fields
    /\ SuppliedValuesValid(request)
    /\ request.pk \notin DOMAIN books
    /\ DOMAIN books # {}
    /\ response.status = HTTP_404_NOT_FOUND

\* The stored books that satisfy every supplied filter, the title and the
\* author's name being compared with `clean` applied to the value.
Matching(q, asTitle, asAuthor) ==
    {id \in DOMAIN books :
        /\ "title" \in q.params => IContains(books[id].title, asTitle)
        /\ "author" \in q.params
              => IContains(authors[books[id].author], asAuthor)
        /\ "publication_year" \in q.params
              => books[id].publication_year = q.publication_year}

\* The response lists exactly the books of `ids`, each once.
ListsExactly(ids) ==
    /\ response.status = HTTP_200_OK
    /\ Len(response.data) = Cardinality(ids)
    /\ {response.data[i].id : i \in 1..Len(response.data)} = ids
    /\ \A i \in 1..Len(response.data) :
          response.data[i] = Serialize(books, response.data[i].id)

Found(term) ==
    {id \in DOMAIN books :
        \/ IContains(books[id].title, term)
        \/ IContains(authors[books[id].author], term)}

SortedBy(field, desc) ==
    \A i, j \in 1..Len(response.data) :
        i < j =>
            LET lo == IF desc THEN response.data[j] ELSE response.data[i]
                hi == IF desc THEN response.data[i] ELSE response.data[j]
            IN  IF field = "title" THEN StrLeq(lo.title, hi.title)
                ELSE lo.publication_year <= hi.publication_year

\* The ids a request with the query q answers with when ?ordering= is
\* taken out of it.
UnorderedResult(q) ==
    LET plain == [q EXCEPT !.params = @ \ {"ordering"}, !.ordering = ""]
    IN  {{sq[i] : i \in 1..Len(sq)} : sq \in filter_queryset(plain, books, authors)}

\* C12: a book-list GET with ordering=title or ordering=publication_year is
\* sorted ascending by that field, with a leading '-' descending, without
\* the ordering parameter ascending by title; the ordered response holds
\* exactly the books the same request returns without the ordering.
C12_OrderingSortsSameBooks ==
    request.view = "book-list" /\ request.method = "GET" =>
        /\ response.status = HTTP_200_OK
        /\ "ordering" \notin request.query.params => SortedBy("title", FALSE)
        /\ request.query.ordering = "title" => SortedBy("title", FALSE)
        /\ request.query.ordering = "-title" => SortedBy("title", TRUE)
        /\ request.query.ordering = "publication_year"
              => SortedBy("publication_year", FALSE)
        /\ request.query.ordering = "-publication_year"
              => SortedBy("publication_year", TRUE)
        /\ {response.data[i].id : i \in 1..Len(response.data)}
              \in UnorderedResult(request.query)
        /\ Len(response.data) = Cardinality(DOMAIN books
              \cap {response.data[i].id : i \in 1..Len(response.data)})

\* Two books with different years were listed with ordering=-publication_year.
C12_Witness ==
    /\ request.view = "book-list"
    /\ request.query.ordering = "-publication_year"
    /\ Len(response.data) = 2
    /\ response.data[1].publication_year > response.data[2].publication_year

\* C13: deleting an author deletes exactly that author's books and no other
\* book, and after any author/book creation, book update or author/book
\* deletion every stored book references an author that is stored.
C13_DeleteAuthorCascades ==
    [][/\ \A a \in DOMAIN authors \ DOMAIN authors' :
             /\ DOMAIN books' = DOMAIN books \ {id \in DOMAIN books : books[id].author = a}
             /\ \A id \in DOMAIN books' : books'[id] = books[id]
       /\ \A id \in DOMAIN books' : books'[id].author \in DOMAIN authors']_vars

\* An author with a book was deleted while another author's book stayed.
C13_Witness ==
    /\ Cardinality(DOMAIN authors) = 2
    /\ nextAuthorId = MaxAuthors + 1
    /\ nextId = 3
    /\ Cardinality(DOMAIN books) = 1

\* C14: author.books is exactly the set of stored books whose author is
\* that author, and every stored book is in the books of exactly one
\* stored author.
C14_ReverseRelation ==
    /\ \A a \in DOMAIN authors :
          Author_books(a, books) = {id \in DOMAIN books : books[id].author = a}
    /\ \A id \in DOMAIN books :
          Cardinality({a \in DOMAIN authors : id \in Author_books(a, books)}) = 1

\* Two stored authors have one book each after an author was deleted.
C14_Witness ==
    /\ Cardinality(DOMAIN authors) < nextAuthorId - 1
    /\ \E a, b \in DOMAIN authors :
          /\ a # b
          /\ Cardinality(Author_books(a, books)) = 1
          /\ Cardinality(Author_books(b, books)) = 1

\* C15 as stated: the collection route books/ accepts GET (list) and POST
\* (create) and the item route books/<id>/ accepts PUT, PATCH and DELETE:
\* sent by an authenticated client, for a stored book where the route names
\* one, each of these requests is answered by a handler that performs the
\* operation, not with method-not-allowed or not-found.
C15_AsStated ==
    [][(/\ request'.view \in DOMAIN urlpatterns
        /\ request'.authenticated
        /\ \/ /\ urlpatterns[request'.view] = "books/"
              /\ request'.method \in {"GET", "POST"}
           \/ /\ urlpatterns[request'.view] = "books/<int:pk>/"
              /\ request'.method \in {"PUT", "PATCH", "DELETE"}
              /\ request'.pk \in DOMAIN books)
          => response'.status \notin {HTTP_404_NOT_FOUND,
                                      HTTP_405_METHOD_NOT_ALLOWED}]_vars

\* The role a role view is for.
RoleOf(view) ==
    CASE view = "admin_view" -> "Admin"
      [] view = "librarian_view" -> "Librarian"
      [] view = "member_view" -> "Member"

\* The user is logged in and the profile of the user has the role.
HasRole(user, role) == user.is_authenticated /\ user.role = role

\* The user is logged in and holds the permission (a superuser holds
\* every permission).
Holds(user, perm) ==
    user.is_authenticated /\ (user.is_superuser \/ perm \in user.user_permissions)

\* The request being answered is for a permission-protected book view.
OnBookView(req) == req.view \in {"book_list", "add_book", "edit_book", "delete_book"}

\* C16 as stated: every request to a protected view by a requester who
\* lacks the required authentication or authorization is answered 401 or
\* 403: the DRF write endpoints, the permission-protected book views and
\* the role views admin_view, librarian_view and member_view alike.
C16_AsStated ==
    /\ (request.view \in WriteViews /\ ~request.authenticated)
          => response.status \in {HTTP_401_UNAUTHORIZED, HTTP_403_FORBIDDEN}
    /\ (OnBookView(webRequest)
           /\ ~Holds(webRequest.user, permission_required(project, webRequest.view)))
          => webResponse.status \in {HTTP_401_UNAUTHORIZED, HTTP_403_FORBIDDEN}
    /\ (webRequest.view \in RoleViews
           /\ ~HasRole(webRequest.user, RoleOf(webRequest.view)))
          => webResponse.status \in {HTTP_401_UNAUTHORIZED, HTTP_403_FORBIDDEN}

\* C16 amended: such a request to a DRF write endpoint or to a
\* permission-protected book view is answered 401 or 403; such a request
\* to a role view is answered with a 302 redirect (to the login page).
C16_UnauthorizedRejectedOrRedirected ==
    /\ (request.view \in WriteViews /\ ~request.authenticated)
          => response.status \in {HTTP_401_UNAUTHORIZED, HTTP_403_FORBIDDEN}
    /\ (OnBookView(webRequest)
           /\ ~Holds(webRequest.user, permission_required(project, webRequest.view)))
          => webResponse.status \in {HTTP_401_UNAUTHORIZED, HTTP_403_FORBIDDEN}
    /\ (webRequest.view \in RoleViews
           /\ ~HasRole(webRequest.user, RoleOf(webRequest.view)))
          => webResponse.status = HTTP_302_FOUND

\* A logged-in user whose role is not Admin was redirected by admin_view.
C16_Witness ==
    /\ webRequest.view = "admin_view"
    /\ webRequest.user.is_authenticated
    /\ webRequest.user.role = "Member"
    /\ webResponse.status = HTTP_302_FOUND

\* The view answering a request in one piece.
Handle(req, store, nid) ==
    CASE req.view = "book-create" -> create(req, store, authors, nid, currentYear)
      [] req.view = "book-update" -> update(req, store, authors, nid, currentYear)
      [] req.view = "book-delete" -> destroy(req, store, nid)

\* The Book table after the requests of the workers order[i..] were
\* answered one at a time, starting from `store`.
RECURSIVE OneAtATime(_, _, _, _)
OneAtATime(order, i, store, nid) ==
    IF i > Len(order) THEN store
    ELSE LET out == Handle(inflight[order[i]].request, store, nid)
         IN  OneAtATime(order, i + 1, out.books, out.nextId)

\* C17 as stated: when concurrently answered requests (create, update,
\* partial update, delete on books) have all been answered, the stored
\* books are those that answering the same requests one at a time, in some
\* order, leaves.
C17_AsStated ==
    (\A w \in Workers : inflight[w].pc = "done")
        => \E order \in Perms(Workers) :
              books = OneAtATime(order, 1, (1 :> SeedBook), 2)

\* C18: admin_view is served only to authenticated users whose profile
\* role is 'Admin', librarian_view only to role 'Librarian', member_view
\* only to role 'Member'; for every user at most one of the three views
\* is served, and none for an unauthenticated user or a user without a
\* profile.
C18_RoleViewsExclusive ==
    /\ (webRequest.view \in RoleViews /\ webResponse.status = HTTP_200_OK)
          => HasRole(webRequest.user, RoleOf(webRequest.view))
    /\ project \in LibraryApps =>
          \A user \in Requesters(project) :
              LET served == {v \in RoleViews :
                               role_view(v, RoleRequest(v, user)).status = HTTP_200_OK}
              IN  /\ Cardinality(served) <= 1
                  /\ (~user.is_authenticated \/ user.role = NoProfile) => served = {}

\* librarian_view was served to a Librarian.
C18_Witness ==
    /\ webRequest.view = "librarian_view"
    /\ webRequest.user.role = "Librarian"
    /\ webResponse.status = HTTP_200_OK

\* C19: in the permission-protected book views, a request by a requester
\* who does not hold the matching permission (a superuser holds all) gets
\* 403 and leaves the stored books unchanged, so a book is listed,
\* created, edited or deleted only for a holder of that permission;
\* holding one permission grants none of the others.
C19_PermissionPerView ==
    [][(OnBookView(webRequest')
          /\ ~Holds(webRequest'.user, permission_required(project, webRequest'.view)))
         => /\ webResponse'.status = HTTP_403_FORBIDDEN
            /\ books' = books]_vars

\* A user who holds only the permission to edit asked to delete a stored
\* book and got 403.
C19_Witness ==
    /\ webRequest.view = "delete_book"
    /\ webRequest.method = "POST"
    /\ webRequest.pk \in DOMAIN books
    /\ Cardinality(webRequest.user.user_permissions) = 1
    /\ permission_required(project, "edit_book") \in webRequest.user.user_permissions
    /\ webResponse.status = HTTP_403_FORBIDDEN

\* The profiles of the user in the UserProfile table `profs`.
ProfilesOf(u, profs) == {p \in DOMAIN profs : profs[p].user = u}

C24_GetChangesNothing ==
    [][(/\ webRequest'.view \in {"add_book", "edit_book", "delete_book"}
        /\ webRequest'.method = "GET")
       => /\ books' = books
          /\ nextId' = nextId
          /\ webResponse'.status \in
                 {HTTP_200_OK, HTTP_403_FORBIDDEN, HTTP_404_NOT_FOUND}]_vars

\* A requester holding the delete permission GETs delete_book for a stored
\* book and is shown the confirmation page; the book is still stored.
C24_Witness ==
    /\ webRequest.view = "delete_book"
    /\ webRequest.method = "GET"
    /\ webResponse.status = HTTP_200_OK
    /\ webRequest.pk \in DOMAIN books


\* The responses edit_book / delete_book can give to `req` when the Book
\* table is `store`.
WebAnswers(req, store) ==
    {o.response :
        o \in IF req.view = "edit_book"
              THEN edit_book(project, req, store, authors, nextId)
              ELSE delete_book(project, req, store, nextId)}

\* The response of book-update / book-delete to `req` when the Book table
\* is `store`.
ApiAnswer(req, store) ==
    (IF req.method \in http_method_names(req.view)
     THEN Handle(req, store, nextId)
     ELSE http_method_not_allowed(req, store, nextId)).response

\* The table `store` with and without a book of id pk.
Without(store, pk) == Remove(store, pk)

With(store, pk) ==
    IF pk \in DOMAIN store THEN store
    ELSE store @@ (pk :> [title |-> <<"a">>, author |-> 1])

\* C25: the authorization check precedes the record lookup. A requester
\* without the required permission (edit_book, delete_book) or without
\* authentication (book-update, book-delete) gets the same authorization
\* failure whether or not a book with the requested id is stored.
C25_AuthorizationPrecedesLookup ==
    /\ (/\ webRequest.view \in {"edit_book", "delete_book"}
        /\ ~Holds(webRequest.user,
                  permission_required(project, webRequest.view)))
       => /\ webResponse = Forbidden
          /\ WebAnswers(webRequest, With(books, webRequest.pk)) = {Forbidden}
          /\ WebAnswers(webRequest, Without(books, webRequest.pk)) = {Forbidden}
    /\ (/\ request.view \in {"book-update", "book-delete"}
        /\ ~request.authenticated)
       => /\ response = PermissionDenied
          /\ ApiAnswer(request, With(books, request.pk)) = PermissionDenied
          /\ ApiAnswer(request, Without(books, request.pk)) = PermissionDenied

\* A requester without the change permission asked edit_book for a book
\* that is not stored and was refused with 403, not 404.
C25_Witness ==
    /\ webRequest.view = "edit_book"
    /\ ~Holds(webRequest.user, permission_required(project, "edit_book"))
    /\ webRequest.pk \notin DOMAIN books
    /\ webResponse.status = HTTP_403_FORBIDDEN


\* Worker w has answered with 200 a PATCH of book 1 that supplied only
\* the field f.
PatchedOnly(w, f) ==
    /\ inflight[w].pc = "done"
    /\ inflight[w].request.method = "PATCH"
    /\ inflight[w].request.supplied = {f}
    /\ inflight[w].response.status = HTTP_200_OK

\* C26 as stated: when two concurrent authenticated PATCH requests to the
\* same book, one supplying only title and the other only
\* publication_year, have both returned 200, the stored book carries both
\* changes.
C26_AsStated ==
    \A v, w \in Workers :
        (PatchedOnly(v, "title") /\ PatchedOnly(w, "publication_year"))
            => /\ 1 \in DOMAIN books
               /\ books[1].title = inflight[v].request.title
               /\ books[1].publication_year = inflight[w].request.publication_year

\* C27 as stated: once a delete of book 1 has been answered with 204 and
\* the book is gone, no later step of a request that had loaded the book
\* before makes a book with that id exist again.
C27_AsStated ==
    [][(/\ 1 \notin DOMAIN books
        /\ \E w \in Workers :
              /\ inflight[w].pc = "done"
              /\ inflight[w].request.view = "book-delete"
              /\ inflight[w].response.status = HTTP_204_NO_CONTENT)
       => 1 \notin DOMAIN books']_vars


\* Every submitted field of the form request is valid for the Book model:
\* the title is present and fits CharField(max_length=255), the author is
\* a stored author (and, where BookForm is used, the form accepts them).
FieldsValid(req) ==
    /\ req.title # <<>>
    /\ Len(req.title) <= TitleMaxLength
    /\ req.author \in DOMAIN authors
    /\ project = RelationshipApp => BookForm_is_valid(req, authors)

\* C28 as stated: in add_book and edit_book of relationship_app (both
\* versions) a POST of an authorized requester that does not pass input
\* validation changes no book; in django-models a POST naming an author id
\* that does not exist is answered 404; a book is written only when every
\* submitted field is valid.
C28_AsStated ==
    [][(/\ project \in {RelationshipApp, DjangoModels}
        /\ webRequest'.view \in {"add_book", "edit_book"}
        /\ webRequest'.method = "POST"
        /\ Holds(webRequest'.user, permission_required(project, webRequest'.view))
        /\ ~FieldsValid(webRequest'))
       => /\ books' = books
          /\ (/\ project = DjangoModels
              /\ webRequest'.title # <<>>
              /\ webRequest'.author \notin DOMAIN authors \cup {0}
              /\ webRequest'.view = "edit_book" => webRequest'.pk \in DOMAIN books)
             => webResponse'.status = HTTP_404_NOT_FOUND]_vars


\* C23: create_user raises ValueError and stores no user when the username
\* is empty; create_superuser raises ValueError and stores no user when
\* is_staff or is_superuser is passed as anything other than True; every
\* user create_superuser returns is stored with is_staff and is_superuser
\* true.
C23_ManagerRejects ==
    [][/\ (managerCall'.op = "create_user" /\ managerCall'.username = "")
          => (managerCall'.raised = "ValueError" /\ users' = users)
       /\ (/\ managerCall'.op = "create_superuser"
           /\ \/ managerCall'.is_staff \in FlagValues \ {"unset", "True"}
              \/ managerCall'.is_superuser \in FlagValues \ {"unset", "True"})
          => (managerCall'.raised = "ValueError" /\ users' = users)
       /\ (managerCall'.op = "create_superuser" /\ managerCall'.returned # 0)
          => /\ managerCall'.returned \in DOMAIN users' \ DOMAIN users
             /\ users'[managerCall'.returned].is_staff
             /\ users'[managerCall'.returned].is_superuser]_vars

\* A superuser is stored, and a later create_superuser called with
\* is_staff=1 raised ValueError.
C23_Witness ==
    /\ \E u \in DOMAIN users : users[u].is_staff /\ users[u].is_superuser
    /\ managerCall.op = "create_superuser"
    /\ managerCall.is_staff = "1"
    /\ managerCall.raised = "ValueError"


\* The request is for BookViewSet (either route of the router).
OnBookViewSet(req) == req.view \in {"book_all-list", "book_all-detail"}

\* The account whose username and password the request carries, if any.
AccountOf(req) ==
    {u \in DOMAIN users : /\ users[u].username = req.username
                          /\ users[u].password = req.password}

\* C21: in api_project every BookViewSet operation (list, create,
\* retrieve, update, destroy) of an unauthenticated requester is rejected
\* and leaves the stored books unchanged, and no request to BookList at
\* api/books/, whatever its method or requester, changes the stored books.
C21_ViewSetRequiresAuthentication ==
    [][/\ (/\ OnBookViewSet(request')
           /\ request'.session = 0
           /\ request'.token \notin DOMAIN tokens)
          => /\ response'.status \in {HTTP_401_UNAUTHORIZED, HTTP_403_FORBIDDEN}
             /\ books' = books
       /\ request'.view = "book-list" => books' = books]_vars

\* An anonymous DELETE of a stored book was rejected and the book is still
\* stored.
C21_Witness ==
    /\ request.view = "book_all-detail"
    /\ request.method = "DELETE"
    /\ request.token = 0
    /\ request.session = 0
    /\ request.pk \in DOMAIN books
    /\ response.status = HTTP_401_UNAUTHORIZED

\* C22: a token is accepted only after it has been issued. The Token table
\* changes only by a POST to api-token-auth/ carrying the username and
\* password of an existing user, which adds the key it returns; a POST
\* with invalid credentials issues nothing; no key is ever withdrawn or
\* re-assigned; and a BookViewSet request carrying a key that is not in
\* the table is answered 401 and changes nothing.
C22_TokenAcceptedOnlyAfterIssued ==
    [][/\ \A k \in DOMAIN tokens : k \in DOMAIN tokens' /\ tokens'[k] = tokens[k]
       /\ tokens' # tokens
          => /\ request'.view = "api_token_auth"
             /\ request'.method = "POST"
             /\ response'.status = HTTP_200_OK
             /\ \E u \in AccountOf(request') :
                   tokens' = tokens @@ (response'.data[1] :> u)
       /\ (request'.view = "api_token_auth" /\ AccountOf(request') = {})
          => /\ tokens' = tokens
             /\ response'.status # HTTP_200_OK
       /\ (/\ OnBookViewSet(request')
           /\ request'.token # 0
           /\ request'.token \notin DOMAIN tokens)
          => /\ response'.status = HTTP_401_UNAUTHORIZED
             /\ books' = books]_vars

\* A request carrying only an issued token created a book.
C22_Witness ==
    /\ request.view = "book_all-list"
    /\ request.method = "POST"
    /\ request.session = 0
    /\ request.token \in DOMAIN tokens
    /\ response.status = HTTP_201_CREATED

=============================================================================
